---------------------------- MODULE Spec2Model ----------------------------
(***************************************************************************)
(* Multi-atlas brain region comparison view (src/src/App.tsx).             *)
(*                                                                         *)
(* A JavaScript string is a sequence of UTF-16 code units; a code unit is  *)
(* named by a TLA+ string: "a", "A", "b", "B", "i", " " are themselves,    *)
(* "Idot" is U+0130 (capital I with dot above) and "dot" is U+0307         *)
(* (combining dot above).                                                  *)
(*                                                                         *)
(* A RegionNode is a record                                                *)
(*   [key, name, vals, hasChildren, children]                              *)
(* where vals maps an atlas key to [isStr, s] (isStr = FALSE is null) and  *)
(* hasChildren tells whether the children property holds an array          *)
(* (children = <<>> when it does not).                                     *)
(***************************************************************************)
EXTENDS Integers, Sequences, FiniteSets, TLC

VARIABLES
    memoized,      \* which App component is mounted: FALSE lines 46-255, TRUE lines 279-485
    file,          \* the regions.json document the fetch would deliver
    promise,       \* the load promise chain: "pending", "fulfilled", "rejected"
    data,          \* useState data
    atlases,       \* useState atlases
    atlasKeys,     \* useState atlasKeys
    totalRegions,  \* useState totalRegions
    searchText,    \* useState searchText
    expandedKeys,  \* useState expandedKeys (an array: order and repeats are kept)
    loading,       \* useState loading
    filteredData,  \* filteredData of the last render
    effectPending, \* the auto-expand effect of the last commit has not run yet
    needsRender,   \* a state update made by the effect waits for its re-render
    lastOp,        \* the last step taken: [op, arg]
    cell,          \* a cell value handed to highlightText
    segments       \* what highlightText returned for it

vars == <<memoized, file, promise, data, atlases, atlasKeys, totalRegions,
          searchText, expandedKeys, loading, filteredData, effectPending,
          needsRender, lastOp, cell, segments>>

Range(s) == {s[i] : i \in 1..Len(s)}

Min(S) == CHOOSE x \in S : \A y \in S : x <= y

-----------------------------------------------------------------------------
(* String primitives of JavaScript used by the component.                  *)

\* String.prototype.toLowerCase on one code unit. U+0130 lower-cases to the
\* two code units U+0069 U+0307.
LowerUnit(c) ==
    CASE c = "A" -> <<"a">>
      [] c = "B" -> <<"b">>
      [] c = "Idot" -> <<"i", "dot">>
      [] OTHER -> <<c>>

RECURSIVE toLowerCase(_)
toLowerCase(s) ==
    IF s = <<>> THEN <<>> ELSE LowerUnit(Head(s)) \o toLowerCase(Tail(s))

IsSpace(c) == c = " "

RECURSIVE trimStart(_)
trimStart(s) ==
    IF s # <<>> /\ IsSpace(Head(s)) THEN trimStart(Tail(s)) ELSE s

RECURSIVE trimEnd(_)
trimEnd(s) ==
    IF s # <<>> /\ IsSpace(s[Len(s)]) THEN trimEnd(SubSeq(s, 1, Len(s) - 1)) ELSE s

\* String.prototype.trim
trim(s) == trimEnd(trimStart(s))

\* String.prototype.indexOf: 0-based index of the first occurrence, or -1.
indexOf(text, sub) ==
    LET hits == {i \in 0..(Len(text) - Len(sub)) :
                    SubSeq(text, i + 1, i + Len(sub)) = sub}
    IN IF hits = {} THEN -1 ELSE Min(hits)

\* String.prototype.includes
includes(text, sub) == indexOf(text, sub) # -1

Clamp(i, n) == IF i < 0 THEN 0 ELSE IF i > n THEN n ELSE i

\* String.prototype.slice(start, end) for non-negative arguments.
slice(text, start, end) ==
    LET a == Clamp(start, Len(text))
        b == Clamp(end, Len(text))
    IN IF a < b THEN SubSeq(text, a + 1, b) ELSE <<>>

-----------------------------------------------------------------------------
(* highlightText, lines 9-29.  The result is the text itself, or the       *)
(* fragment before / <mark>match</mark> / after.                           *)

highlightText(text, search) ==
    IF trim(search) = <<>> \/ text = <<>>
    THEN [kind |-> "text", text |-> text]
    ELSE LET searchLower == toLowerCase(search)
             textLower == toLowerCase(text)
             index == indexOf(textLower, searchLower)
         IN IF index = -1
            THEN [kind |-> "text", text |-> text]
            ELSE [kind |-> "split",
                  before |-> slice(text, 0, index),
                  match |-> slice(text, index, index + Len(search)),
                  after |-> slice(text, index + Len(search), Len(text))]

-----------------------------------------------------------------------------
(* getAllKeys, lines 124-136 and 338-350.                                  *)

RECURSIVE traverse(_, _)
traverse(items, keys) ==
    IF items = <<>> THEN keys
    ELSE LET item == Head(items)
             pushed == Append(keys, item.key)
             below == IF item.hasChildren
                      THEN traverse(item.children, pushed)
                      ELSE pushed
         IN traverse(Tail(items), below)

\* A traversal that pushes a node's key after its children's.
RECURSIVE traversePost(_, _)
traversePost(items, keys) ==
    IF items = <<>> THEN keys
    ELSE LET item == Head(items)
             below == IF item.hasChildren
                      THEN traversePost(item.children, keys)
                      ELSE keys
         IN traversePost(Tail(items), Append(below, item.key))

getAllKeysPost(nodes) == traversePost(nodes, <<>>)

getAllKeys(nodes) == traverse(nodes, <<>>)

-----------------------------------------------------------------------------
(* filterTree, lines 149-173 and 371-398.                                  *)

nameMatch(node, searchLower) == includes(toLowerCase(node.name), searchLower)

acronymMatch(node, searchLower, aKeys) ==
    \E i \in 1..Len(aKeys) :
        /\ aKeys[i] \in DOMAIN node.vals
        /\ node.vals[aKeys[i]].isStr
        /\ includes(toLowerCase(node.vals[aKeys[i]].s), searchLower)

\* A condition that keeps every node that has a children array.
keepNodeAnyChildren(node, searchLower, aKeys, filteredChildren) ==
    \/ nameMatch(node, searchLower)
    \/ acronymMatch(node, searchLower, aKeys)
    \/ node.hasChildren

\* A condition that keeps a node with a children array only when one of its
\* children survives.
keepNodeNeedsChild(node, searchLower, aKeys, filteredChildren) ==
    IF node.hasChildren
    THEN Len(filteredChildren) > 0
    ELSE nameMatch(node, searchLower) \/ acronymMatch(node, searchLower, aKeys)

\* The condition of the if at lines 164 and 389.
keepNode(node, searchLower, aKeys, filteredChildren) ==
    \/ nameMatch(node, searchLower)
    \/ acronymMatch(node, searchLower, aKeys)
    \/ (node.hasChildren /\ Len(filteredChildren) > 0)

\* The object pushed at lines 165-168 and 390-393.
pushedNode(node, filteredChildren) ==
    [node EXCEPT !.hasChildren = node.hasChildren /\ Len(filteredChildren) > 0,
                 !.children = IF node.hasChildren /\ Len(filteredChildren) > 0
                              THEN filteredChildren ELSE <<>>]

RECURSIVE filterTree(_, _, _)
filterTree(nodes, searchLower, aKeys) ==
    IF nodes = <<>> THEN <<>>
    ELSE LET node == Head(nodes)
             filteredChildren == IF node.hasChildren
                                 THEN filterTree(node.children, searchLower, aKeys)
                                 ELSE <<>>
             rest == filterTree(Tail(nodes), searchLower, aKeys)
         IN IF keepNode(node, searchLower, aKeys, filteredChildren)
            THEN <<pushedNode(node, filteredChildren)>> \o rest
            ELSE rest

\* filteredData, lines 175-177 and 364-401.
computeFiltered(nodes, search, aKeys) ==
    IF trim(search) = <<>> THEN nodes
    ELSE filterTree(nodes, toLowerCase(search), aKeys)

-----------------------------------------------------------------------------
(* Inputs of the view: the documents the fetch may deliver and the texts   *)
(* the search box may hold.                                                *)

Null == [isStr |-> FALSE, s |-> <<>>]

Str(s) == [isStr |-> TRUE, s |-> s]

\* A RegionNode without a children property.
Leaf(key, name, val) ==
    [key |-> key, name |-> name, vals |-> [A1 |-> val],
     hasChildren |-> FALSE, children |-> <<>>]

\* A RegionNode whose children property is the array kids.
Parent(key, name, val, kids) ==
    [key |-> key, name |-> name, vals |-> [A1 |-> val],
     hasChildren |-> TRUE, children |-> kids]

RegionData(regions) ==
    [atlases |-> <<"Atlas One">>, atlasKeys |-> <<"A1">>,
     totalRegions |-> Len(getAllKeys(regions)), regions |-> regions]

Files ==
    { RegionData(<<Parent("r1", <<"A", "b">>, Null,
                          <<Leaf("r2", <<"b">>, Str(<<"A">>)),
                            Parent("r3", <<"B">>, Null, <<>>)>>)>>),
      RegionData(<<Parent("r1", <<"b">>, Null,
                          <<Leaf("r2", <<"a">>, Null)>>),
                   Leaf("r3", <<"b">>, Str(<<"B">>))>>) }

Queries == {<<>>, <<" ">>, <<"a">>, <<"b">>}

\* Longest expandedKeys array a row-expand event is applied to.
MaxExpanded == 3

-----------------------------------------------------------------------------
(* The component's state machine.                                          *)

Op(name) == [op |-> name, arg |-> ""]

\* useState initial values, lines 47-53 and 280-286; the mount effect of
\* lines 180-184 has run (searchText is '', so it changed nothing) and the
\* fetch of lines 77-91 is in flight.
Init ==
    /\ memoized \in BOOLEAN
    /\ file \in Files
    /\ promise = "pending"
    /\ data = <<>>
    /\ atlases = <<>>
    /\ atlasKeys = <<>>
    /\ totalRegions = 0
    /\ searchText = <<>>
    /\ expandedKeys = <<>>
    /\ loading = TRUE
    /\ filteredData = <<>>
    /\ effectPending = FALSE
    /\ needsRender = FALSE
    /\ lastOp = Op("init")
    /\ cell = <<>>
    /\ segments = highlightText(<<>>, <<>>)

\* Whether a dependency of the auto-expand effect, [searchText, filteredData]
\* (lines 184 and 409), differs by Object.is from the previous render's.
\* Lines 175-177 build a new array on every render with a non-blank query;
\* the useMemo of lines 364-401 builds one only when data, searchText or
\* atlasKeys changed.  With a blank query filteredData is the data array.
depsChanged(newSearch, dataChanged) ==
    LET searchChanged == newSearch # searchText
        wasBuilt == trim(searchText) # <<>>
        isBuilt == trim(newSearch) # <<>>
        recomputed == IF memoized THEN dataChanged \/ searchChanged ELSE TRUE
        refChanged == recomputed /\ (isBuilt \/ wasBuilt \/ dataChanged)
    IN searchChanged \/ refChanged

\* A render and commit of App with the given state.
RenderCommit(d, s, ak, dataChanged) ==
    /\ filteredData' = computeFiltered(d, s, ak)
    /\ effectPending' = depsChanged(s, dataChanged)
    /\ needsRender' = FALSE

\* Input.Search onChange, lines 216 and 441.
Keystroke(q) ==
    /\ ~effectPending
    /\ q # searchText
    /\ searchText' = q
    /\ RenderCommit(data, q, atlasKeys, FALSE)
    /\ lastOp' = [op |-> "keystroke",
                  arg |-> IF trim(searchText) # <<>> /\ trim(q) = <<>>
                          THEN "cleared" ELSE ""]
    /\ UNCHANGED <<memoized, file, promise, data, atlases, atlasKeys,
                   totalRegions, expandedKeys, loading, cell, segments>>

\* prev => [...prev, record.key], lines 189 and 414.
expandKeys(prev, key) == Append(prev, key)

\* A collapse that removes one occurrence of the key only.
collapseFirst(prev, key) ==
    IF key \in Range(prev)
    THEN LET i == Min({j \in 1..Len(prev) : prev[j] = key})
         IN SubSeq(prev, 1, i - 1) \o SubSeq(prev, i + 1, Len(prev))
    ELSE prev

\* prev => prev.filter(k => k !== record.key), lines 191 and 416.
collapseKeys(prev, key) == SelectSeq(prev, LAMBDA k : k # key)

\* onExpand, lines 187-193 and 412-418; the record is a row of the table,
\* whose dataSource is filteredData.
OnExpand(expanded, key) ==
    /\ ~effectPending
    /\ key \in Range(getAllKeys(filteredData))
    /\ expanded => Len(expandedKeys) < MaxExpanded
    /\ expandedKeys' = IF expanded THEN expandKeys(expandedKeys, key)
                       ELSE collapseKeys(expandedKeys, key)
    /\ RenderCommit(data, searchText, atlasKeys, FALSE)
    /\ lastOp' = [op |-> IF expanded THEN "expand" ELSE "collapse", arg |-> key]
    /\ UNCHANGED <<memoized, file, promise, data, atlases, atlasKeys,
                   totalRegions, searchText, loading, cell, segments>>

\* An expandAll that reads the table's rows instead of the dataset.
expandAllFiltered(d, fd) == getAllKeys(fd)

\* The array expandAll stores, lines 140 and 354-355.
expandAllKeys(d, fd) == getAllKeys(d)

\* expandAll, lines 139-141 and 353-356.
ExpandAll ==
    /\ ~effectPending
    /\ expandedKeys' = expandAllKeys(data, filteredData)
    /\ RenderCommit(data, searchText, atlasKeys, FALSE)
    /\ lastOp' = Op("expandAll")
    /\ UNCHANGED <<memoized, file, promise, data, atlases, atlasKeys,
                   totalRegions, searchText, loading, cell, segments>>

\* collapseAll, lines 144-146 and 359-361.
CollapseAll ==
    /\ ~effectPending
    /\ expandedKeys' = <<>>
    /\ RenderCommit(data, searchText, atlasKeys, FALSE)
    /\ lastOp' = Op("collapseAll")
    /\ UNCHANGED <<memoized, file, promise, data, atlases, atlasKeys,
                   totalRegions, searchText, loading, cell, segments>>

\* The fulfilment handler of the load, lines 80-86 and 292-298.
LoadOk ==
    /\ ~effectPending
    /\ promise = "pending"
    /\ promise' = "fulfilled"
    /\ data' = file.regions
    /\ atlases' = file.atlases
    /\ atlasKeys' = file.atlasKeys
    /\ totalRegions' = file.totalRegions
    /\ loading' = FALSE
    /\ RenderCommit(file.regions, searchText, file.atlasKeys, TRUE)
    /\ lastOp' = Op("loadOk")
    /\ UNCHANGED <<memoized, file, searchText, expandedKeys, cell, segments>>

\* A rejection handler that forgets setLoading(false).
LoadFailKeepsLoading ==
    /\ ~effectPending
    /\ promise = "pending"
    /\ promise' = "rejected"
    /\ RenderCommit(data, searchText, atlasKeys, FALSE)
    /\ lastOp' = Op("loadFail")
    /\ UNCHANGED <<memoized, file, data, atlases, atlasKeys, totalRegions,
                   searchText, expandedKeys, loading, cell, segments>>

\* The rejection handler of the load, lines 87-90 and 299-302: the fetch or
\* res.json() failed.
LoadFail ==
    /\ ~effectPending
    /\ promise = "pending"
    /\ promise' = "rejected"
    /\ loading' = FALSE
    /\ RenderCommit(data, searchText, atlasKeys, FALSE)
    /\ lastOp' = Op("loadFail")
    /\ UNCHANGED <<memoized, file, data, atlases, atlasKeys, totalRegions,
                   searchText, expandedKeys, cell, segments>>

\* An effect without the guard on the query.
autoExpandAlways(search, fd, prev) == getAllKeys(fd)

\* What the auto-expand effect leaves in expandedKeys, lines 181-183 and
\* 405-408.
autoExpand(search, fd, prev) ==
    IF trim(search) # <<>> THEN getAllKeys(fd) ELSE prev

\* The auto-expand effect runs, lines 180-184 and 404-409.  Its
\* setExpandedKeys stores a new array, which schedules a re-render.
RunEffect ==
    /\ effectPending
    /\ effectPending' = FALSE
    /\ expandedKeys' = autoExpand(searchText, filteredData, expandedKeys)
    /\ needsRender' = (needsRender \/ trim(searchText) # <<>>)
    /\ lastOp' = Op("effect")
    /\ UNCHANGED <<memoized, file, promise, data, atlases, atlasKeys,
                   totalRegions, searchText, loading, filteredData, cell,
                   segments>>

\* The re-render that the effect's state update scheduled.
Render ==
    /\ needsRender
    /\ ~effectPending
    /\ RenderCommit(data, searchText, atlasKeys, FALSE)
    /\ lastOp' = Op("render")
    /\ UNCHANGED <<memoized, file, promise, data, atlases, atlasKeys,
                   totalRegions, searchText, expandedKeys, loading, cell,
                   segments>>

UserEvent ==
    \/ \E q \in Queries : Keystroke(q)
    \/ \E expanded \in BOOLEAN, key \in {"r1", "r2", "r3"} : OnExpand(expanded, key)
    \/ ExpandAll
    \/ CollapseAll

Next ==
    \/ UserEvent
    \/ LoadOk
    \/ LoadFail
    \/ RunEffect
    \/ Render

Spec == Init /\ [][Next]_vars

\* React runs a pending effect and a scheduled re-render; nothing obliges
\* the user or the network to act.
FairSpec == Spec /\ WF_vars(RunEffect) /\ WF_vars(Render)

-----------------------------------------------------------------------------
(* Properties of the expansion state and of the load.                      *)

RowKeys == {"r1", "r2", "r3"}

KeySet(keys) == Range(keys)

Quiescent == ~effectPending /\ ~needsRender

\* C3: while the trimmed query is non-empty, the expansion set the view
\* settles on (no effect pending, no re-render scheduled) is the key set of
\* the current filtered tree, whatever toggles, Expand All or Collapse All
\* came before.
C3_AutoExpandOverridesManual ==
    (Quiescent /\ trim(searchText) # <<>>)
        => KeySet(expandedKeys) = KeySet(getAllKeys(filteredData))

\* C4: with an empty query, a row-expand event for R makes R.key a member of
\* the expansion set, a row-collapse event makes it a non-member however
\* often it had been added, and no other key's membership changes.
C4_ManualToggle ==
    [][(trim(searchText) = <<>> /\ lastOp'.op \in {"expand", "collapse"})
         => /\ (lastOp'.op = "expand") => lastOp'.arg \in KeySet(expandedKeys')
            /\ (lastOp'.op = "collapse") => lastOp'.arg \notin KeySet(expandedKeys')
            /\ \A k \in RowKeys \ {lastOp'.arg} :
                  (k \in KeySet(expandedKeys')) <=> (k \in KeySet(expandedKeys))]_vars

\* A row was collapsed with an empty query while another row stays expanded.
C4_Witness ==
    /\ lastOp.op = "collapse"
    /\ trim(searchText) = <<>>
    /\ lastOp.arg \notin KeySet(expandedKeys)
    /\ expandedKeys # <<>>

\* C5: right after Expand All the expansion set is collectKeys of the full
\* dataset, not of the filtered tree, and Expand All applied again in that
\* state stores the same set.
C5_ExpandAll ==
    lastOp.op = "expandAll"
        => /\ expandedKeys = getAllKeys(data)
           /\ expandAllKeys(data, filteredData) = expandedKeys

\* Expand All was pressed while a query hides part of the dataset.
C5_Witness ==
    /\ lastOp.op = "expandAll"
    /\ trim(searchText) # <<>>
    /\ KeySet(getAllKeys(filteredData)) # KeySet(getAllKeys(data))
    /\ expandedKeys = getAllKeys(data)

\* C6: a step that leaves the trimmed query empty and is no manual toggle,
\* Expand All or Collapse All leaves the expansion set as it was; this covers
\* the keystroke that clears the query and every effect, re-render and load
\* step after it.
C6_ClearKeepsExpansion ==
    [][(trim(searchText') = <<>>
          /\ lastOp'.op \notin {"expand", "collapse", "expandAll", "collapseAll"})
         => expandedKeys' = expandedKeys]_vars

\* The query was just cleared and the rows the search had expanded are still
\* expanded.
C6_Witness ==
    /\ lastOp = [op |-> "keystroke", arg |-> "cleared"]
    /\ expandedKeys # <<>>
    /\ expandedKeys # getAllKeys(data)

\* C7: once the load has failed the loading flag is false and the dataset,
\* atlas lists and total are still empty; a settled load never leaves the view
\* loading; a settled load stays settled the same way (no second load).
C7_LoadFailure ==
    /\ [](promise = "rejected"
            => /\ ~loading
               /\ data = <<>> /\ atlases = <<>> /\ atlasKeys = <<>>
               /\ totalRegions = 0)
    /\ [](promise # "pending" => ~loading)
    /\ [][promise # "pending" => promise' = promise]_vars

\* The load failed and the view went on working without data.
C7_Witness ==
    /\ promise = "rejected"
    /\ ~loading
    /\ data = <<>>
    /\ lastOp.op = "effect"
    /\ trim(searchText) # <<>>

\* C10: if from some point on no user or load event arrives, the cycle of
\* render and auto-expand effect comes to rest: eventually no effect is
\* pending and no re-render is scheduled, for good.
C10_Quiescence ==
    (<>[][RunEffect \/ Render]_vars) => <>[]Quiescent

-----------------------------------------------------------------------------
(* Bounded families of region trees, for the properties of the pure        *)
(* functions.  A forest of n nodes is given by the parent of each node in  *)
(* pre-order (0 for a top-level node) and a label for each node.           *)

\* Most nodes of a generated forest.
MaxNodes == 3

\* Longest cell text handed to highlightText.
MaxTextLen == 3

RECURSIVE Chain(_, _)
Chain(par, i) == IF i = 0 THEN {0} ELSE {i} \cup Chain(par, par[i])

\* The parent vectors of the ordered forests of n nodes numbered in pre-order.
ParentVectors(n) ==
    {par \in [1..n -> 0..n] :
        \A i \in 1..n : /\ par[i] < i
                        /\ par[i] \in (IF i = 1 THEN {0} ELSE Chain(par, i - 1))}

RECURSIVE Ascending(_)
Ascending(S) ==
    IF S = {} THEN <<>> ELSE <<Min(S)>> \o Ascending(S \ {Min(S)})

RECURSIVE BuildForest(_, _, _)
BuildForest(par, lab, p) ==
    LET kids == Ascending({i \in DOMAIN par : par[i] = p})
    IN [j \in 1..Len(kids) |->
          LET below == BuildForest(par, lab, kids[j])
          IN [key |-> lab[kids[j]].key,
              name |-> lab[kids[j]].name,
              vals |-> [A1 |-> lab[kids[j]].val],
              hasChildren |-> (below # <<>> \/ lab[kids[j]].emptyArray),
              children |-> below]]

KeyNames == <<"r1", "r2", "r3", "r4", "r5">>

\* name and atlas value of a node: one that contains "a" in its name, one
\* that contains it in its atlas value only, one that does not contain it.
Contents ==
    { [name |-> <<"a", "B">>, val |-> Null],
      [name |-> <<"b">>, val |-> Str(<<"A">>)],
      [name |-> <<"b">>, val |-> Null] }

\* Forests of at most most nodes with unique keys (r1, r2, ... in pre-order).
FilterForests(most) ==
    UNION { { BuildForest(par,
                [i \in 1..n |-> [key |-> KeyNames[i], name |-> c[i].name,
                                 val |-> c[i].val, emptyArray |-> e[i]]], 0) :
              par \in ParentVectors(n), c \in [1..n -> Contents],
              e \in [1..n -> BOOLEAN] } : n \in 0..most }

FilterQueries ==
    {<<" ">>, <<"a">>, <<"B">>, <<"a", "b">>, <<"a", " ">>, <<" ", "a">>}

\* Forests of at most most nodes whose keys are drawn freely, repeats
\* included.
KeyForests(most) ==
    UNION { { BuildForest(par,
                [i \in 1..n |-> [key |-> k[i], name |-> <<"a">>,
                                 val |-> Null, emptyArray |-> e[i]]], 0) :
              par \in ParentVectors(n), k \in [1..n -> {"r1", "r2", "r3"}],
              e \in [1..n -> BOOLEAN] } : n \in 0..most }

CodeUnits == {"a", "A", "Idot", " "}

\* The texts of at most most code units.
Texts(most) == UNION { [1..n -> CodeUnits] : n \in 0..most }

HighlightQueries ==
    {<<>>, <<" ">>, <<"a">>, <<"A">>, <<"a", "A">>, <<"A", " ">>}

\* The view after regions was loaded, with query q in the search box: the
\* auto-expand effect has run, and with a blank query the rows in keys are
\* expanded.
Loaded(regions, q, keys, text) ==
    /\ memoized = FALSE
    /\ file = RegionData(regions)
    /\ promise = "fulfilled"
    /\ data = regions
    /\ atlases = file.atlases
    /\ atlasKeys = file.atlasKeys
    /\ totalRegions = file.totalRegions
    /\ searchText = q
    /\ expandedKeys = IF trim(q) # <<>>
                      THEN getAllKeys(computeFiltered(regions, q, <<"A1">>))
                      ELSE keys
    /\ loading = FALSE
    /\ filteredData = computeFiltered(regions, q, <<"A1">>)
    /\ effectPending = FALSE
    /\ needsRender = (trim(q) # <<>>)
    /\ lastOp = Op("init")
    /\ cell = text
    /\ segments = highlightText(<<>>, <<>>)

\* The filter applied by the render that follows a keystroke.
FilterInit == \E regions \in FilterForests(MaxNodes) : Loaded(regions, <<>>, <<>>, <<>>)

FilterNext == \E q \in FilterQueries : Keystroke(q)

FilterSpec == FilterInit /\ [][FilterNext]_vars

\* The traversal applied by Expand All.
KeysInit == \E regions \in KeyForests(MaxNodes) : Loaded(regions, <<>>, <<>>, <<>>)

KeysNext == ExpandAll

KeysSpec == KeysInit /\ [][KeysNext]_vars

\* The name column's render function, line 106, and the atlas columns',
\* line 118, hand a cell value to highlightText.
RenderCell ==
    /\ lastOp.op # "highlight"
    /\ segments' = highlightText(cell, searchText)
    /\ lastOp' = Op("highlight")
    /\ UNCHANGED <<memoized, file, promise, data, atlases, atlasKeys,
                   totalRegions, searchText, expandedKeys, loading,
                   filteredData, effectPending, needsRender, cell>>

HighlightInit ==
    \E text \in Texts(MaxTextLen), q \in HighlightQueries :
        Loaded(<<Leaf("r1", <<"a">>, Null)>>, q, <<>>, text)

HighlightNext == RenderCell

HighlightSpec == HighlightInit /\ [][HighlightNext]_vars

-----------------------------------------------------------------------------
(* Properties of the pure functions.                                       *)

\* The nodes of a forest, at every depth.
RECURSIVE NodesOf(_)
NodesOf(forest) ==
    UNION { {forest[i]} \cup NodesOf(forest[i].children) : i \in 1..Len(forest) }

\* A node self-matches when its name, or one of its atlas values that is a
\* string, contains the lower-cased query once lower-cased itself; a null
\* value is no string.
SelfMatches(node, query) ==
    LET wanted == toLowerCase(query)
        hit(text) ==
            \E i \in 1..(Len(toLowerCase(text)) - Len(wanted) + 1) :
                \A j \in 1..Len(wanted) :
                    toLowerCase(text)[i + j - 1] = wanted[j]
    IN \/ hit(node.name)
       \/ \E k \in DOMAIN node.vals :
             k \in Range(atlasKeys) /\ node.vals[k].isStr /\ hit(node.vals[k].s)

\* C1: with a non-blank query, every node of the filtered tree self-matches
\* or has a descendant in the filtered tree that does; every leaf of the
\* filtered tree self-matches.
C1_FilterSoundness ==
    trim(searchText) # <<>>
        => \A n \in NodesOf(filteredData) :
              /\ \/ SelfMatches(n, searchText)
                 \/ \E d \in NodesOf(n.children) : SelfMatches(d, searchText)
              /\ n.children = <<>> => SelfMatches(n, searchText)

\* A pass-through ancestor: kept without matching, its atlas value null,
\* above a match, while another node of the dataset was pruned.
C1_Witness ==
    /\ trim(searchText) # <<>>
    /\ \E n \in NodesOf(filteredData) :
          /\ ~SelfMatches(n, searchText)
          /\ ~n.vals["A1"].isStr
          /\ n.children # <<>>
    /\ Cardinality(NodesOf(filteredData)) < Cardinality(NodesOf(data))

\* The chains of keys from a top-level node down to a node.
RECURSIVE KeyPaths(_)
KeyPaths(forest) ==
    UNION { {<<forest[i].key>>}
              \cup {<<forest[i].key>> \o p : p \in KeyPaths(forest[i].children)} :
            i \in 1..Len(forest) }

\* The siblings found under a chain of keys (the top level for <<>>).
RECURSIVE SiblingsAt(_, _)
SiblingsAt(forest, path) ==
    IF path = <<>> THEN forest
    ELSE LET i == CHOOSE j \in 1..Len(forest) : forest[j].key = Head(path)
         IN SiblingsAt(forest[i].children, Tail(path))

NodeAt(forest, path) ==
    LET sibs == SiblingsAt(forest, SubSeq(path, 1, Len(path) - 1))
    IN sibs[CHOOSE j \in 1..Len(sibs) : sibs[j].key = path[Len(path)]]

Position(sibs, key) == CHOOSE j \in 1..Len(sibs) : sibs[j].key = key

\* C2: with a non-blank query, every self-matching node of the dataset is in
\* the filtered tree under the same chain of ancestors, with its own name and
\* atlas values, and siblings of the filtered tree stand in the order they
\* have in the dataset.
C2_FilterCompleteness ==
    trim(searchText) # <<>>
        => /\ \A p \in KeyPaths(data) :
                SelfMatches(NodeAt(data, p), searchText)
                    => /\ p \in KeyPaths(filteredData)
                       /\ NodeAt(filteredData, p).name = NodeAt(data, p).name
                       /\ NodeAt(filteredData, p).vals = NodeAt(data, p).vals
           /\ \A p \in KeyPaths(filteredData) \cup {<<>>} :
                LET kept == SiblingsAt(filteredData, p)
                    orig == SiblingsAt(data, p)
                IN \A i, j \in 1..Len(kept) :
                      i < j => Position(orig, kept[i].key) < Position(orig, kept[j].key)

\* A matching node is kept although none of its children survives, next to
\* a kept sibling.
C2_Witness ==
    /\ trim(searchText) # <<>>
    /\ \E p \in KeyPaths(data) :
          /\ SelfMatches(NodeAt(data, p), searchText)
          /\ NodeAt(data, p).children # <<>>
          /\ p \in KeyPaths(filteredData)
          /\ NodeAt(filteredData, p).children = <<>>
          /\ Len(SiblingsAt(filteredData, SubSeq(p, 1, Len(p) - 1))) > 1

\* The positions of a forest's nodes: the child indices from the top level
\* down to the node.
RECURSIVE IndexPaths(_)
IndexPaths(forest) ==
    UNION { {<<i>>} \cup {<<i>> \o p : p \in IndexPaths(forest[i].children)} :
            i \in 1..Len(forest) }

RECURSIVE KeyAtIndexPath(_, _)
KeyAtIndexPath(forest, path) ==
    IF Len(path) = 1 THEN forest[path[1]].key
    ELSE KeyAtIndexPath(forest[path[1]].children, Tail(path))

\* Pre-order on positions: an ancestor before its descendants, and otherwise
\* by the child index at the first difference.
Before(p, q) ==
    \/ Len(p) < Len(q) /\ SubSeq(q, 1, Len(p)) = p
    \/ \E i \in 1..Len(p) :
          /\ i <= Len(q)
          /\ SubSeq(p, 1, i - 1) = SubSeq(q, 1, i - 1)
          /\ p[i] < q[i]

\* C8: what Expand All stored is the pre-order sequence of the dataset's
\* keys: as long as the dataset has nodes, and the node that has k nodes
\* before it in pre-order gives the entry k + 1.
C8_TraversalCompleteness ==
    lastOp.op = "expandAll"
        => /\ Len(expandedKeys) = Cardinality(IndexPaths(data))
           /\ \A p \in IndexPaths(data) :
                expandedKeys[Cardinality({q \in IndexPaths(data) : Before(q, p)}) + 1]
                    = KeyAtIndexPath(data, p)

\* Expand All ran on a dataset with a nested node, a node whose children
\* array is empty, and a key that occurs twice.
C8_Witness ==
    /\ lastOp.op = "expandAll"
    /\ \E p \in IndexPaths(data) : Len(p) > 1
    /\ \E n \in NodesOf(data) : n.hasChildren /\ n.children = <<>>
    /\ Cardinality(Range(expandedKeys)) < Len(expandedKeys)
    /\ Len(expandedKeys) = MaxNodes

\* The query occurs in the text at 0-based index i, letter case aside.
OccursAt(text, query, i) ==
    /\ i + Len(query) <= Len(text)
    /\ toLowerCase(SubSeq(text, i + 1, i + Len(query))) = toLowerCase(query)

Occurs(text, query) == \E i \in 0..Len(text) : OccursAt(text, query, i)

\* C9: highlight returns the text as one plain segment when the trimmed
\* query is empty, the text is empty or the query does not occur in it,
\* letter case aside; otherwise prefix, matched, suffix that concatenate to
\* the text, matched as long as the query and equal to it up to letter case,
\* and no occurrence starting left of matched.
C9_HighlightSplit ==
    lastOp.op = "highlight"
        => IF trim(searchText) = <<>> \/ cell = <<>> \/ ~Occurs(cell, searchText)
           THEN segments = [kind |-> "text", text |-> cell]
           ELSE /\ segments.kind = "split"
                /\ segments.before \o segments.match \o segments.after = cell
                /\ Len(segments.match) = Len(searchText)
                /\ toLowerCase(segments.match) = toLowerCase(searchText)
                /\ \A i \in 0..Len(cell) :
                      OccursAt(cell, searchText, i) => i >= Len(segments.before)

=============================================================================
